---- MODULE Spec2Model ----
(***************************************************************************)
(* Model of pkg/proc/native/threads_linux_arm.go: register transfer        *)
(* (fpRegisters, restoreRegisters), next-PC resolution (resolvePC) and the *)
(* breakpoint-emulated singleStep of the ARM native backend.               *)
(*                                                                         *)
(* Numbers.  A Go uint64 is a tuple of four 16-bit limbs, least            *)
(* significant first, so that 64-bit wrap-around, the 32-bit uintptr       *)
(* truncation of linux/arm and the shifts are computed at their real       *)
(* widths.  A memory word is a tuple of four bytes in memory order.        *)
(***************************************************************************)
EXTENDS Integers, Sequences, FiniteSets, TLC

\* ------------------------------------------------------------------ uint64

Limb == 2 ^ 16

U64(n) == <<n % Limb, n \div Limb, 0, 0>>

Add64(a, b) ==
    LET s1 == a[1] + b[1]
        s2 == a[2] + b[2] + (s1 \div Limb)
        s3 == a[3] + b[3] + (s2 \div Limb)
        s4 == a[4] + b[4] + (s3 \div Limb)
    IN  <<s1 % Limb, s2 % Limb, s3 % Limb, s4 % Limb>>

Not64(a) == <<Limb - 1 - a[1], Limb - 1 - a[2], Limb - 1 - a[3], Limb - 1 - a[4]>>

Sub64(a, b) == Add64(Add64(a, Not64(b)), U64(1))

\* uint64(x) of a signed 16- or 32-bit x: sign extension to 64 bits.
SignExt64(x) == IF x >= 0 THEN U64(x) ELSE Sub64(U64(0), U64(-x))

\* uintptr(x) on linux/arm: the low 32 bits.
Uintptr(x) == <<x[1], x[2], 0, 0>>

Bit(a, k) == (a[(k \div 16) + 1] \div (2 ^ (k % 16))) % 2

RECURSIVE LimbOf(_, _, _)
LimbOf(f, j, k) ==
    IF k = 16 THEN 0 ELSE f[16 * j + k] * (2 ^ k) + LimbOf(f, j, k + 1)

FromBits(f) == <<LimbOf(f, 0, 0), LimbOf(f, 1, 0), LimbOf(f, 2, 0), LimbOf(f, 3, 0)>>

\* x << c and x >> c of a uint64 x (Go: the result is 0 once c >= 64).
Shl64(a, c) == FromBits([k \in 0..63 |-> IF k >= c THEN Bit(a, k - c) ELSE 0])

Shr64(a, c) == FromBits([k \in 0..63 |-> IF k + c <= 63 THEN Bit(a, k + c) ELSE 0])

\* math/bits.RotateLeft64(x, k); k < 0 rotates right.
RotateLeft64(a, k) == FromBits([j \in 0..63 |-> Bit(a, (j - k) % 64)])

\* ------------------------------------------------------------ memory words

\* binary.LittleEndian.Uint32(b), widened to uint64.
LittleEndianUint32(b) == <<b[1] + 256 * b[2], b[3] + 256 * b[4], 0, 0>>

\* The bytes of a 32-bit value < 2^31 in memory order (the model's initial
\* stack words are built with it).
WordBytes(n) == <<n % 256, (n \div 256) % 256, (n \div 65536) % 256, n \div 16777216>>

\* ------------------------------------------------------------------ errors

\* A Go error value.  kind "nil" is the nil error; proc.ErrProcessExited
\* carries Pid and Status, a failed tracing call carries the address it was
\* issued for (0 when it has none).
Error(kind, a, b) == [kind |-> kind, a |-> a, b |-> b]

NilErr == Error("nil", 0, 0)

ErrProcessExited(p, rs) == Error("ErrProcessExited", p, rs)

\* -------------------------------------------------- decoded instructions

\* armasm.Inst as resolvePC reads it: Op and Args.  armasm folds the
\* condition into Op ("B" is the always-executed branch, "B_EQ" the branch
\* executed on EQ), and an operand is one of Imm, Reg, PCRel, RegList, Mem.
NoMem == [Base |-> 0, Mode |-> "AddrOffset", Sign |-> 0, Index |-> 0,
          Shift |-> "ShiftLeft", Count |-> 0, Offset |-> 0]

Imm(v) == [t |-> "Imm", v |-> v, r |-> 0, list |-> {}, m |-> NoMem]

Reg(r) == [t |-> "Reg", v |-> 0, r |-> r, list |-> {}, m |-> NoMem]

PCRel(off) == [t |-> "PCRel", v |-> off, r |-> 0, list |-> {}, m |-> NoMem]

RegList(s) == [t |-> "RegList", v |-> 0, r |-> 0, list |-> s, m |-> NoMem]

Mem(base, mode, sign, index, shift, count, offset) ==
    [t |-> "Mem", v |-> 0, r |-> 0, list |-> {},
     m |-> [Base |-> base, Mode |-> mode, Sign |-> sign, Index |-> index,
            Shift |-> shift, Count |-> count, Offset |-> offset]]

Inst(op, args) == [Op |-> op, Args |-> args]

\* armasm.Decode failed on the fetched bytes.
Undecodable == Inst("?", <<>>)

\* armasm register numbers.
SP == 13

PC == 15

\* t.BinInfo().Arch.MaxInstructionLength() of the ARM architecture.
nextInstrLen == 4

\* t.BinInfo().Arch.BreakpointInstruction(): the bytes written over a
\* candidate address.
breakpointInstr == <<240, 1, 240, 231>>

\* ------------------------------------------------------- tracing primitives

\* regs.PC()
RegsPC(regs) == regs[PC]

\* regs.Get(n): the value of core register n; an error for any other number.
RegsGet(regs, n) ==
    IF n \in DOMAIN regs THEN [err |-> NilErr, val |-> regs[n]]
    ELSE [err |-> Error("GetErr", n, 0), val |-> U64(0)]

\* sys.PtracePeekData(t.ID, addr, buf) for one word: fails when the call is
\* refused (ok = FALSE) or the address is not mapped in the tracee.
PtracePeekData(mem, addr, ok) ==
    IF ok /\ addr \in DOMAIN mem THEN [err |-> NilErr, data |-> mem[addr]]
    ELSE [err |-> Error("PeekErr", addr[1], addr[2]), data |-> <<0, 0, 0, 0>>]

\* sys.PtracePokeData(t.ID, addr, data) for one word: all or nothing.
PokeOk(mem, addr, ok) == ok /\ addr \in DOMAIN mem

PtracePokeData(mem, addr, data, ok) ==
    IF PokeOk(mem, addr, ok) THEN [err |-> NilErr, mem |-> [mem EXCEPT ![addr] = data]]
    ELSE [err |-> Error("PokeErr", addr[1], addr[2]), mem |-> mem]

\* --------------------------------------------------------------- resolvePC

\* The result of resolvePC: the error, the candidate sequence nextPcs (empty
\* with an error) and, in order, the addresses it issued a peek for.
Resolved(err, pcs, reads) == [err |-> err, pcs |-> pcs, reads |-> reads]

\* SeedPcs with the instruction length left out of the seed.
SeedPcs_AtPC(regs) == <<RegsPC(regs)>>

\* nextPcs := []uint64{regs.PC() + uint64(nextInstrLen)}
SeedPcs(regs) == <<Add64(RegsPC(regs), U64(nextInstrLen))>>

\* case armasm.BL, armasm.BLX, armasm.B, armasm.BX: the switch compares Op with
\* the always-executed opcodes only.
IsBranchOp(op) == op \in {"BL", "BLX", "B", "BX"}

\* BranchTarget appending the number of the register operand instead of the
\* value regs.Get returns for it.
BranchTarget_RegisterNumber(arg, regs) ==
    CASE arg.t = "Imm" -> [err |-> NilErr, pcs |-> <<U64(arg.v)>>]
      [] arg.t = "Reg" -> [err |-> NilErr, pcs |-> <<U64(arg.r)>>]
      [] arg.t = "PCRel" ->
            [err |-> NilErr, pcs |-> <<Add64(RegsPC(regs), SignExt64(arg.v))>>]
      [] OTHER -> [err |-> NilErr, pcs |-> <<>>]

\* The targets appended for a branch whose first operand is arg.
BranchTarget(arg, regs) ==
    CASE arg.t = "Imm" -> [err |-> NilErr, pcs |-> <<U64(arg.v)>>]
      [] arg.t = "Reg" ->
            LET g == RegsGet(regs, arg.r)
            IN  IF g.err # NilErr THEN [err |-> g.err, pcs |-> <<>>]
                ELSE [err |-> NilErr, pcs |-> <<g.val>>]
      [] arg.t = "PCRel" ->
            [err |-> NilErr, pcs |-> <<Add64(RegsPC(regs), SignExt64(arg.v))>>]
      [] OTHER -> [err |-> NilErr, pcs |-> <<>>]

\* for i := 0; i < int(armasm.PC); i++ { if regList&(1<<i) != 0 { pc += nextInstrLen } }
RECURSIVE PopWalk(_, _, _)
PopWalk(list, i, pc) ==
    IF i >= PC THEN pc
    ELSE PopWalk(list, i + 1, IF i \in list THEN Add64(pc, U64(nextInstrLen)) ELSE pc)

\* The address a pop that restores the program counter loads it from.
PopLoadAddr(list, regs) ==
    LET g == RegsGet(regs, SP)
    IN  IF g.err # NilErr THEN [err |-> g.err, val |-> U64(0)]
        ELSE [err |-> NilErr, val |-> PopWalk(list, 0, g.val)]

\* The index register shifted as lines 118-127 shift it.
ShiftIndex(idx, shift, count) ==
    IF shift = "ShiftLeft" /\ count = 0 THEN idx
    ELSE CASE shift = "ShiftLeft" -> Shl64(idx, count)
           [] shift \in {"ShiftRight", "ShiftRightSigned"} -> Shr64(idx, count)
           [] shift \in {"RotateRight", "RotateRightExt"} ->
                 RotateLeft64(idx, (256 - count) % 256)
           [] OTHER -> idx

\* The address a load into the program counter reads, for the operand m.
LdrLoadAddr(m, regs) ==
    LET b == RegsGet(regs, m.Base)
    IN  IF b.err # NilErr THEN [err |-> b.err, val |-> U64(0)]
        ELSE IF m.Mode \in {"AddrOffset", "AddrPreIndex"}
        THEN IF m.Sign # 0
             THEN LET x == RegsGet(regs, m.Index)
                  IN  IF x.err # NilErr THEN [err |-> x.err, val |-> U64(0)]
                      ELSE LET idx == ShiftIndex(x.val, m.Shift, m.Count)
                           IN  [err |-> NilErr,
                                val |-> IF m.Sign < 0 THEN Sub64(b.val, idx)
                                        ELSE Add64(b.val, idx)]
             ELSE [err |-> NilErr, val |-> Add64(b.val, SignExt64(m.Offset))]
        ELSE [err |-> NilErr, val |-> b.val]

\* for _, argRaw := range nextInstr.Args[1:]: the sum of the immediate and
\* register operands from position k on, starting from pc.
RECURSIVE ArithSum(_, _, _, _)
ArithSum(args, k, regs, pc) ==
    IF k > Len(args) THEN [err |-> NilErr, val |-> pc]
    ELSE CASE args[k].t = "Imm" -> ArithSum(args, k + 1, regs, Add64(pc, U64(args[k].v)))
           [] args[k].t = "Reg" ->
                 LET g == RegsGet(regs, args[k].r)
                 IN  IF g.err # NilErr THEN [err |-> g.err, val |-> U64(0)]
                     ELSE ArithSum(args, k + 1, regs, Add64(pc, g.val))
           [] OTHER -> ArithSum(args, k + 1, regs, pc)

\* DestIsPC without the comparison with armasm.PC.
DestIsPC_AnyRegister(args) == Len(args) >= 1 /\ args[1].t = "Reg"

\* Whether the first operand is the register PC.
DestIsPC(args) == Len(args) >= 1 /\ args[1].t = "Reg" /\ args[1].r = PC

\* One word read at uintptr(pc) and appended to nextPcs as a target.
LoadTarget(seed, fetch, mem, pc, okRead) ==
    LET a == Uintptr(pc)
        r == PtracePeekData(mem, a, okRead)
    IN  IF r.err # NilErr THEN Resolved(r.err, <<>>, <<fetch, a>>)
        ELSE Resolved(NilErr, Append(seed, LittleEndianUint32(r.data)), <<fetch, a>>)

\* resolvePC(regs) for the instruction inst decoded from the bytes at the
\* program counter, on the tracee memory mem; okFetch and okRead say whether
\* the instruction fetch and the second memory read are served.
resolvePC(regs, inst, mem, okFetch, okRead) ==
    LET fetch == Uintptr(RegsPC(regs))
        first == PtracePeekData(mem, fetch, okFetch)
        seed  == SeedPcs(regs)
        args  == inst.Args
    IN  IF first.err # NilErr THEN Resolved(first.err, <<>>, <<fetch>>)
        ELSE IF inst = Undecodable THEN Resolved(Error("DecodeErr", 0, 0), <<>>, <<fetch>>)
        ELSE CASE IsBranchOp(inst.Op) ->
                    LET b == BranchTarget(args[1], regs)
                    IN  IF b.err # NilErr THEN Resolved(b.err, <<>>, <<fetch>>)
                        ELSE Resolved(NilErr, seed \o b.pcs, <<fetch>>)
               [] inst.Op = "POP" ->
                    IF args[1].t = "RegList" /\ PC \in args[1].list
                    THEN LET p == PopLoadAddr(args[1].list, regs)
                         IN  IF p.err # NilErr THEN Resolved(p.err, <<>>, <<fetch>>)
                             ELSE LoadTarget(seed, fetch, mem, p.val, okRead)
                    ELSE Resolved(NilErr, seed, <<fetch>>)
               [] inst.Op = "LDR" ->
                    IF DestIsPC(args) /\ args[2].t = "Mem"
                    THEN LET p == LdrLoadAddr(args[2].m, regs)
                         IN  IF p.err # NilErr THEN Resolved(p.err, <<>>, <<fetch>>)
                             ELSE LoadTarget(seed, fetch, mem, p.val, okRead)
                    ELSE Resolved(NilErr, seed, <<fetch>>)
               [] inst.Op \in {"MOV", "ADD"} ->
                    IF DestIsPC(args)
                    THEN LET s == ArithSum(args, 2, regs, U64(0))
                         IN  IF s.err # NilErr THEN Resolved(s.err, <<>>, <<fetch>>)
                             ELSE Resolved(NilErr, Append(seed, s.val), <<fetch>>)
                    ELSE Resolved(NilErr, seed, <<fetch>>)
               [] OTHER -> Resolved(NilErr, seed, <<fetch>>)

\* ------------------------------------------------------ the traced thread

\* What the processor does with the instruction at the program counter when
\* the thread is resumed (ARM, 32-bit words).  A register operand that is the
\* program counter reads as the instruction's address + 8.
HwReg(regs, r) == IF r = PC THEN Add64(regs[PC], U64(8)) ELSE regs[r]

\* The opcode without its condition, and whether the condition is "always".
BaseOp(op) ==
    CASE op \in {"B", "B_EQ"} -> "B"
      [] op \in {"BL", "BL_NE"} -> "BL"
      [] op \in {"BX", "BX_EQ"} -> "BX"
      [] op \in {"BLX"} -> "BLX"
      [] op \in {"POP", "POP_EQ"} -> "POP"
      [] op \in {"LDR", "LDR_EQ"} -> "LDR"
      [] op \in {"MOV", "MOV_NE"} -> "MOV"
      [] op \in {"ADD", "ADD_EQ"} -> "ADD"
      [] OTHER -> op

IsConditional(op) == op # BaseOp(op)

\* The 32-bit shifter: the possible values of the shifted index (rotate right
\* with extend shifts the carry flag in, which is either bit).
HwShift(x, shift, count) ==
    CASE shift = "ShiftLeft" -> {Uintptr(Shl64(x, count))}
      [] shift = "ShiftRight" -> {Shr64(Uintptr(x), count)}
      [] shift = "ShiftRightSigned" ->
            {FromBits([k \in 0..63 |->
                IF k > 31 THEN 0
                ELSE IF k + count <= 31 THEN Bit(x, k + count) ELSE Bit(x, 31)])}
      [] shift = "RotateRight" ->
            {FromBits([k \in 0..63 |-> IF k > 31 THEN 0 ELSE Bit(x, (k + count) % 32)])}
      [] shift = "RotateRightExt" ->
            {FromBits([k \in 0..63 |->
                IF k > 31 THEN 0 ELSE IF k = 31 THEN c ELSE Bit(x, k + 1)]) : c \in {0, 1}}
      [] OTHER -> {Uintptr(x)}

\* The addresses a load with memory operand m can read.
HwLoadAddrs(m, regs) ==
    LET b == HwReg(regs, m.Base)
    IN  IF m.Mode \in {"AddrOffset", "AddrPreIndex"}
        THEN IF m.Sign # 0
             THEN {Uintptr(IF m.Sign < 0 THEN Sub64(b, x) ELSE Add64(b, x)) :
                      x \in HwShift(regs[m.Index], m.Shift, m.Count)}
             ELSE {Uintptr(Add64(b, SignExt64(m.Offset)))}
        ELSE {Uintptr(b)}

RECURSIVE HwSum(_, _, _)
HwSum(args, k, regs) ==
    IF k > Len(args) THEN U64(0)
    ELSE Add64(CASE args[k].t = "Imm" -> U64(args[k].v)
                 [] args[k].t = "Reg" -> HwReg(regs, args[k].r)
                 [] OTHER -> U64(0),
               HwSum(args, k + 1, regs))

\* The word at address a, as an address.
HwWord(mem, a) == IF a \in DOMAIN mem THEN {LittleEndianUint32(mem[a])} ELSE {}

\* The addresses the instruction transfers control to when it is executed
\* and its condition holds.
HwTaken(inst, regs, mem) ==
    LET args == inst.Args
        op == BaseOp(inst.Op)
        fall == {Uintptr(Add64(regs[PC], U64(nextInstrLen)))}
    IN  CASE op \in {"B", "BL", "BX", "BLX"} ->
               CASE args[1].t = "Imm" -> {U64(args[1].v)}
                 [] args[1].t = "Reg" -> {Uintptr(HwReg(regs, args[1].r))}
                 [] args[1].t = "PCRel" ->
                       {Uintptr(Add64(HwReg(regs, PC), SignExt64(args[1].v)))}
                 [] OTHER -> fall
          [] op = "POP" /\ PC \in args[1].list ->
               HwWord(mem, Uintptr(Add64(regs[SP],
                   U64(nextInstrLen * Cardinality({r \in args[1].list : r < PC})))))
          [] op = "LDR" /\ DestIsPC(args) /\ args[2].t = "Mem" ->
               UNION {HwWord(mem, a) : a \in HwLoadAddrs(args[2].m, regs)}
          [] op \in {"MOV", "ADD"} /\ DestIsPC(args) -> {Uintptr(HwSum(args, 2, regs))}
          [] OTHER -> fall

\* The addresses the resumed thread can execute next.
ExecNext(inst, regs, mem) ==
    IF inst = Undecodable THEN {}
    ELSE HwTaken(inst, regs, mem) \cup
         (IF IsConditional(inst.Op) THEN {Uintptr(Add64(regs[PC], U64(nextInstrLen)))} ELSE {})

\* The addresses at which the resumed thread traps: it executes the
\* instruction at its program counter and stops at the next address when that
\* address holds the breakpoint encoding (at once, when its own does).
TrapAddrs(inst, regs, mem) ==
    LET here == Uintptr(regs[PC])
    IN  IF here \in DOMAIN mem /\ mem[here] = breakpointInstr THEN {here}
        ELSE {a \in ExecNext(inst, regs, mem) : a \in DOMAIN mem /\ mem[a] = breakpointInstr}

\* ------------------------------------------------------------------ inputs

\* The most events of other threads, or stops of the target thread with
\* another signal, that the wait loop observes in one step.
MaxIgnored == 2

\* The thread is stopped at this address when an operation starts.
StartPC == U64(4096)

\* A captured general-register set: R0 = r0, R1 = 1, SP = 0x3000,
\* LR = 0x2000, PC = 0x1000, every other register 0.
RegFile(r0) ==
    [r \in 0..15 |->
        CASE r = 0 -> U64(r0)
          [] r = 1 -> U64(1)
          [] r = SP -> U64(12288)
          [] r = 14 -> U64(8192)
          [] r = PC -> StartPC
          [] OTHER -> U64(0)]

RegFiles == {RegFile(8192), RegFile(4100)}

\* The mapped words of the tracee: code at 0x1000, 0x1004, 0x2000, 0x2004 and
\* three stack words at 0x3000.
MappedAddrs == {U64(4096), U64(4100), U64(8192), U64(8196),
                U64(12288), U64(12292), U64(12296)}

\* Tracee memory whose stack words at SP+4 and SP+8 hold the address ret.
InitMem(ret) ==
    [a \in MappedAddrs |->
        IF a \in {U64(12292), U64(12296)} THEN WordBytes(ret) ELSE WordBytes(a[1] + 1)]

\* The instructions the thread can be stopped at, as armasm decodes them.
InstrSet ==
    { Inst("MOV", <<Reg(0), Reg(1)>>),
      Inst("ADD_EQ", <<Reg(0), Reg(1), Imm(4)>>),
      Inst("CMP", <<Reg(0), Imm(0)>>),
      Inst("LDR", <<Reg(0), Mem(SP, "AddrOffset", 0, 0, "ShiftLeft", 0, 4)>>),
      Inst("POP", <<RegList({0, 3})>>),
      Inst("BL", <<PCRel(4096)>>),
      Inst("B", <<Imm(8192)>>),
      Inst("B", <<PCRel(4)>>),
      Inst("BX", <<Reg(0)>>),
      Inst("B_EQ", <<PCRel(4096)>>),
      Inst("POP", <<RegList({0, 3, PC})>>),
      Inst("LDR", <<Reg(PC), Mem(SP, "AddrOffset", 0, 0, "ShiftLeft", 0, 4)>>),
      Inst("LDR", <<Reg(PC), Mem(SP, "AddrPreIndex", 1, 1, "ShiftLeft", 2, 0)>>),
      Inst("MOV", <<Reg(PC), Reg(14)>>),
      Inst("ADD", <<Reg(PC), Reg(0), Imm(4)>>),
      Inst("BLX", <<Reg(14)>>),
      Inst("BL", <<PCRel(4088)>>),
      Inst("B", <<PCRel(-8)>>),
      Inst("POP", <<RegList({PC})>>),
      Inst("POP_EQ", <<RegList({0, 3, PC})>>),
      Inst("LDR", <<Reg(PC), Mem(SP, "AddrOffset", 1, 1, "RotateRight", 4, 0)>>),
      Inst("LDR", <<Reg(PC), Mem(SP, "AddrPostIndex", 0, 0, "ShiftLeft", 0, 4)>>),
      Undecodable }

\* Floating-point register blocks (raw bytes); the nil slice is <<>>.
FpBlocks == {<<1, 2>>, <<3, 4>>}

\* The register sets restoreRegisters can be given.
SavedRegs == [Regs : RegFiles, Fpregset : FpBlocks \cup {<<>>}]

\* ------------------------------------------------------------------- state

VARIABLES
    pos,            \* where the running operation is; "idle" before any
    pid,            \* t.dbp.pid
    tid,            \* t.ID
    code,           \* armasm.Decode of the bytes at the thread's program counter
    threadRegs,     \* the thread's general registers
    threadFp,       \* the thread's floating-point block
    tstate,         \* "stopped", "running" or "exited": the target thread
    mem,            \* tracee memory
    mem0,           \* tracee memory when the operation started
    regs,           \* singleStep: the registers t.Registers() returned
    nextPcs,        \* singleStep: the candidates resolvePC returned
    i,              \* singleStep: index of the next candidate to instrument
    originalDatas,  \* singleStep: originalDatas, address -> saved word
    remaining,      \* singleStep: addresses the cleanup loop has yet to visit
    err,            \* singleStep: the named result err
    failure,        \* the first error of Prepare, Instrument, Resume or Wait
    trapped,        \* a wait returned the target thread's trap
    exitEvent,      \* the process-exit event a wait returned, or NoEvent
    postExited,     \* t.dbp.postExit() was called
    ignored,        \* events the wait loop passed over
    trace,          \* the calls made against the tracee so far, in order
    rr,             \* the last restoreRegisters call, or NoCall
    rd              \* the register read that followed it, or NoRead

vars == <<pos, pid, tid, code, threadRegs, threadFp, tstate, mem, mem0, regs, nextPcs,
          i, originalDatas, remaining, err, failure, trapped, exitEvent, postExited,
          ignored, trace, rr, rd>>

stepVars == <<regs, nextPcs, i, originalDatas, remaining, err, failure, trapped,
              exitEvent, postExited, ignored>>

\* One tracing call: its name, the part of the operation that issued it, the
\* address and the word it carried, whether it succeeded, and whether it ran
\* inside t.dbp.execPtraceFunc.
\* A call made against the tracee, as issued from the goroutine of the
\* operation; gate tells whether it ran inside the Dispatch Gate.
Call(name, part, addr, data, ok) ==
    [call |-> name, part |-> part, addr |-> addr, data |-> data, ok |-> ok, gate |-> FALSE]

\* t.dbp.execPtraceFunc(func() { ... }): the call of the closure is executed
\* by the gate.
execPtraceFunc(c) == [c EXCEPT !.gate = TRUE]

NoWord == <<0, 0, 0, 0>>

\* make(map[uintptr][]byte)
EmptyMap == [a \in {} |-> NoWord]

NoEvent == [wpid |-> 0, status |-> "none", code |-> 0]

NoCall == [S |-> [Regs |-> RegFile(0), Fpregset |-> <<>>], ret |-> NilErr,
           gOk |-> FALSE, fpWrite |-> FALSE, fpOk |-> FALSE, done |-> FALSE]

NoRead == [Regs |-> RegFile(0), fpregs |-> <<>>, Vregs |-> <<>>, err |-> NilErr,
           done |-> FALSE]

Init ==
    /\ pos = "idle"
    /\ pid = 100
    /\ tid \in {100, 101}
    /\ code \in InstrSet
    /\ threadRegs \in RegFiles
    /\ threadFp = <<1, 2>>
    /\ tstate = "stopped"
    /\ mem \in {InitMem(8192), InitMem(4100)}
    /\ mem0 = mem
    /\ regs = RegFile(0)
    /\ nextPcs = <<>>
    /\ i = 1
    /\ originalDatas = EmptyMap
    /\ remaining = {}
    /\ err = NilErr
    /\ failure = NilErr
    /\ trapped = FALSE
    /\ exitEvent = NoEvent
    /\ postExited = FALSE
    /\ ignored = 0
    /\ trace = <<>>
    /\ rr = NoCall
    /\ rd = NoRead

\* -------------------------------------------------------------- singleStep

\* The register read t.Registers() makes: the Register Transfer calls the
\* gate for it.
RegistersCall(ok) == execPtraceFunc(Call("getregs", "prepare", U64(0), NoWord, ok))

\* regs, err := t.Registers(); if err != nil { return err }
singleStep_Registers ==
    /\ pos = "idle"
    /\ \E ok \in BOOLEAN :
        /\ trace' = Append(trace, RegistersCall(ok))
        /\ IF ok
           THEN /\ regs' = threadRegs
                /\ pos' = "resolve"
                /\ UNCHANGED <<err, failure>>
           ELSE /\ err' = Error("RegistersErr", 0, 0)
                /\ failure' = Error("RegistersErr", 0, 0)
                /\ pos' = "returned"
                /\ UNCHANGED regs
    /\ UNCHANGED <<pid, tid, code, threadRegs, threadFp, tstate, mem, mem0, nextPcs, i,
                   originalDatas, remaining, trapped, exitEvent, postExited, ignored,
                   rr, rd>>

\* The peeks of one resolvePC call, as tracing calls.
PeekCalls(r) ==
    [k \in 1..Len(r.reads) |->
        execPtraceFunc(Call("peek", "resolve", r.reads[k], NoWord,
             k < Len(r.reads) \/ r.err.kind # "PeekErr"))]

\* nextPcs, err := t.resolvePC(regs), up to its second call of
\* execPtraceFunc: the fetch (lines 55-57), the decode and the computation of
\* the address a pop or a load takes the target from.  When a target is to
\* be read the call goes on in resolvePC_targetPeek; otherwise resolvePC
\* returns and "if err != nil { return err }" follows.
singleStep_resolvePC ==
    /\ pos = "resolve"
    /\ \E okFetch \in BOOLEAN :
        LET r == resolvePC(regs, code, mem, okFetch, TRUE)
        IN  IF Len(r.reads) = 2
            THEN /\ trace' = trace \o SubSeq(PeekCalls(r), 1, 1)
                 /\ pos' = "load"
                 /\ UNCHANGED <<err, failure, nextPcs>>
            ELSE /\ trace' = trace \o PeekCalls(r)
                 /\ err' = r.err
                 /\ IF r.err # NilErr
                    THEN /\ failure' = r.err
                         /\ pos' = "returned"
                         /\ UNCHANGED nextPcs
                    ELSE /\ nextPcs' = r.pcs
                         /\ pos' = "instrument"
                         /\ UNCHANGED failure
    /\ UNCHANGED <<pid, tid, code, threadRegs, threadFp, tstate, mem, mem0, regs, i,
                   originalDatas, remaining, trapped, exitEvent, postExited, ignored,
                   rr, rd>>

\* The second call of execPtraceFunc in resolvePC (lines 95-97, 138-140): the
\* target word is read from the memory as it is now, then resolvePC returns.
resolvePC_targetPeek ==
    /\ pos = "load"
    /\ \E okRead \in BOOLEAN :
        LET r == resolvePC(regs, code, mem, TRUE, okRead)
        IN  /\ trace' = trace \o SubSeq(PeekCalls(r), 2, 2)
            /\ err' = r.err
            /\ IF r.err # NilErr
               THEN /\ failure' = r.err
                    /\ pos' = "returned"
                    /\ UNCHANGED nextPcs
               ELSE /\ nextPcs' = r.pcs
                    /\ pos' = "instrument"
                    /\ UNCHANGED failure
    /\ UNCHANGED <<pid, tid, code, threadRegs, threadFp, tstate, mem, mem0, regs, i,
                   originalDatas, remaining, trapped, exitEvent, postExited, ignored,
                   rr, rd>>

\* The word of the tracee's stack that another client writes.
StackWords == {U64(12296)}

\* Another client of the gate is served while singleStep is not inside
\* execPtraceFunc: between the two calls resolvePC makes, or while singleStep
\* is blocked in t.dbp.wait.  It stores the address 0x1004 in a stack word
\* of the tracee.
otherClient_poke ==
    /\ pos \in {"load", "wait"}
    /\ \E a \in StackWords :
        /\ mem[a] # WordBytes(4100)
        /\ mem' = [mem EXCEPT ![a] = WordBytes(4100)]
        /\ trace' = Append(trace,
               execPtraceFunc(Call("poke", "other", a, WordBytes(4100), TRUE)))
    /\ UNCHANGED <<pos, pid, tid, code, threadRegs, threadFp, tstate, mem0, regs, nextPcs,
                   i, originalDatas, remaining, err, failure, trapped, exitEvent,
                   postExited, ignored, rr, rd>>

\* originalDatas[addr] = originalData
MapPut(m, addr, data) ==
    [a \in DOMAIN m \cup {addr} |-> IF a = addr THEN data ELSE m[a]]

\* readWriteMem recording the saved bytes before the breakpoint write, so
\* that a failed write leaves an entry behind.
readWriteMem_SaveBeforePoke ==
    /\ pos = "instrument"
    /\ i <= Len(nextPcs)
    /\ \E okPeek \in BOOLEAN, okPoke \in BOOLEAN :
        LET addr == Uintptr(nextPcs[i])
            rd1 == PtracePeekData(mem, addr, okPeek)
            wr == PtracePokeData(mem, addr, breakpointInstr, okPoke)
            peek == execPtraceFunc(Call("peek", "instrument", addr, NoWord, rd1.err = NilErr))
            poke == execPtraceFunc(Call("poke", "instrument", addr, breakpointInstr, wr.err = NilErr))
        IN  IF rd1.err # NilErr
            THEN /\ err' = rd1.err
                 /\ failure' = rd1.err
                 /\ trace' = Append(trace, peek)
                 /\ pos' = "cleanup"
                 /\ remaining' = DOMAIN originalDatas
                 /\ UNCHANGED <<mem, originalDatas, i>>
            ELSE IF wr.err # NilErr
            THEN /\ err' = wr.err
                 /\ failure' = wr.err
                 /\ trace' = trace \o <<peek, poke>>
                 /\ pos' = "cleanup"
                 /\ originalDatas' = MapPut(originalDatas, addr, rd1.data)
                 /\ remaining' = DOMAIN originalDatas'
                 /\ UNCHANGED <<mem, i>>
            ELSE /\ err' = NilErr
                 /\ mem' = wr.mem
                 /\ originalDatas' = MapPut(originalDatas, addr, rd1.data)
                 /\ i' = i + 1
                 /\ trace' = trace \o <<peek, poke>>
                 /\ UNCHANGED <<failure, pos, remaining>>
    /\ UNCHANGED <<pid, tid, code, threadRegs, threadFp, tstate, mem0, regs, nextPcs,
                   trapped, exitEvent, postExited, ignored, rr, rd>>


\* One iteration of the loop over nextPcs: readWriteMem(i, uintptr(nextPc),
\* breakpointInstr).  A failure leaves the closure; the deferred cleanup is
\* registered next and "if err != nil { return err }" runs it.
readWriteMem ==
    /\ pos = "instrument"
    /\ i <= Len(nextPcs)
    /\ \E okPeek \in BOOLEAN, okPoke \in BOOLEAN :
        LET addr == Uintptr(nextPcs[i])
            rd1 == PtracePeekData(mem, addr, okPeek)
            wr == PtracePokeData(mem, addr, breakpointInstr, okPoke)
            peek == execPtraceFunc(Call("peek", "instrument", addr, NoWord, rd1.err = NilErr))
            poke == execPtraceFunc(Call("poke", "instrument", addr, breakpointInstr, wr.err = NilErr))
        IN  IF rd1.err # NilErr
            THEN /\ err' = rd1.err
                 /\ failure' = rd1.err
                 /\ trace' = Append(trace, peek)
                 /\ pos' = "cleanup"
                 /\ remaining' = DOMAIN originalDatas
                 /\ UNCHANGED <<mem, originalDatas, i>>
            ELSE IF wr.err # NilErr
            THEN /\ err' = wr.err
                 /\ failure' = wr.err
                 /\ trace' = trace \o <<peek, poke>>
                 /\ pos' = "cleanup"
                 /\ remaining' = DOMAIN originalDatas
                 /\ UNCHANGED <<mem, originalDatas, i>>
            ELSE /\ err' = NilErr
                 /\ mem' = wr.mem
                 /\ originalDatas' = MapPut(originalDatas, addr, rd1.data)
                 /\ i' = i + 1
                 /\ trace' = trace \o <<peek, poke>>
                 /\ UNCHANGED <<failure, pos, remaining>>
    /\ UNCHANGED <<pid, tid, code, threadRegs, threadFp, tstate, mem0, regs, nextPcs,
                   trapped, exitEvent, postExited, ignored, rr, rd>>

\* err = ptraceCont(t.ID, 0), after every candidate was instrumented.
ptraceCont ==
    /\ pos = "instrument"
    /\ i > Len(nextPcs)
    /\ \E ok \in BOOLEAN :
        /\ trace' = Append(trace, execPtraceFunc(Call("cont", "resume", U64(0), NoWord, ok)))
        /\ IF ok
           THEN /\ err' = NilErr
                /\ tstate' = "running"
                /\ pos' = "wait"
                /\ UNCHANGED <<failure, remaining>>
           ELSE /\ err' = Error("ContErr", 0, 0)
                /\ failure' = Error("ContErr", 0, 0)
                /\ pos' = "cleanup"
                /\ remaining' = DOMAIN originalDatas
                /\ UNCHANGED tstate
    /\ UNCHANGED <<pid, tid, code, threadRegs, threadFp, mem, mem0, regs, nextPcs, i,
                   originalDatas, trapped, exitEvent, postExited, ignored, rr, rd>>

\* What t.dbp.wait(t.ID, 0) can return without an error: the observed id and
\* its status.  status "nil" is the nil *WaitStatus (only with the process id),
\* "exited" carries ExitStatus() in exit, "stopped" carries StopSignal() in sig.
Event(wpid, status, exit, sig) == [wpid |-> wpid, status |-> status, exit |-> exit, sig |-> sig]

OtherThreads == {102}

WaitEvents ==
    {Event(pid, "nil", 0, "none")}
    \cup {Event(w, "exited", c, "none") : w \in {pid, tid} \cup OtherThreads, c \in {0, 3}}
    \cup {Event(w, "stopped", 0, sg) : w \in {pid, tid} \cup OtherThreads, sg \in {"SIGTRAP", "SIGSTOP"}}

\* The events the tracee can produce now: the target thread stops only while
\* it runs, and with the trap signal only at a breakpoint; an exited thread
\* produces nothing more.
Possible(ev) ==
    /\ (ev.wpid = tid /\ ev.status = "stopped") => tstate = "running"
    /\ (ev.wpid = tid /\ ev.status = "stopped" /\ ev.sig = "SIGTRAP") =>
            TrapAddrs(code, threadRegs, mem) # {}
    /\ (ev.wpid = tid /\ ev.status = "exited") => tstate # "exited"

\* status.StopSignal()
StopSignal(ev) == IF ev.status = "stopped" THEN ev.sig ELSE "none"

\* Lines 225-235: what the loop does with an event.
WaitDecision(ev) ==
    IF (ev.status = "nil" \/ ev.status = "exited") /\ ev.wpid = pid THEN "exit"
    ELSE IF ev.wpid = tid /\ StopSignal(ev) = "SIGTRAP" THEN "trap"
    ELSE "loop"

\* t.dbp.wait(t.ID, 0) at line 221: called from singleStep's own goroutine,
\* not in a closure handed to execPtraceFunc.
WaitCall(ok) == Call("wait", "wait", U64(0), NoWord, ok)

\* The state of the target thread after the event.
ThreadAfter(ev) ==
    IF ev.wpid = tid /\ ev.status = "stopped" THEN "stopped"
    ELSE IF ev.wpid \in {tid, pid} /\ ev.status \in {"exited", "nil"} THEN "exited"
    ELSE tstate

\* wpid, status, err := t.dbp.wait(t.ID, 0); if err != nil { return err }
wait_error ==
    /\ pos = "wait"
    /\ trace' = Append(trace, WaitCall(FALSE))
    /\ err' = Error("WaitErr", 0, 0)
    /\ failure' = Error("WaitErr", 0, 0)
    /\ pos' = "cleanup"
    /\ remaining' = DOMAIN originalDatas
    /\ UNCHANGED <<pid, tid, code, threadRegs, threadFp, tstate, mem, mem0, regs, nextPcs,
                   i, originalDatas, trapped, exitEvent, postExited, ignored, rr, rd>>

\* The event is the exit of the process: t.dbp.postExit() and
\* return proc.ErrProcessExited{Pid: t.dbp.pid, Status: rs}.
wait_exit ==
    /\ pos = "wait"
    /\ \E ev \in WaitEvents :
        /\ Possible(ev)
        /\ WaitDecision(ev) = "exit"
        /\ exitEvent' = ev
        /\ err' = ErrProcessExited(pid, IF ev.status # "nil" THEN ev.exit ELSE 0)
        /\ tstate' = ThreadAfter(ev)
    /\ postExited' = TRUE
    /\ trace' = Append(trace, WaitCall(TRUE))
    /\ pos' = "cleanup"
    /\ remaining' = DOMAIN originalDatas
    /\ UNCHANGED <<pid, tid, code, threadRegs, threadFp, mem, mem0, regs, nextPcs, i,
                   originalDatas, failure, trapped, ignored, rr, rd>>

\* The event is the target thread's trap: return nil.  The thread stopped at
\* the breakpoint it ran into.
wait_trap ==
    /\ pos = "wait"
    /\ \E ev \in WaitEvents :
        /\ Possible(ev)
        /\ WaitDecision(ev) = "trap"
        /\ tstate' = ThreadAfter(ev)
    /\ \E a \in TrapAddrs(code, threadRegs, mem) :
        threadRegs' = [threadRegs EXCEPT ![PC] = a]
    /\ trapped' = TRUE
    /\ err' = NilErr
    /\ trace' = Append(trace, WaitCall(TRUE))
    /\ pos' = "cleanup"
    /\ remaining' = DOMAIN originalDatas
    /\ UNCHANGED <<pid, tid, code, threadFp, mem, mem0, regs, nextPcs, i, originalDatas,
                   failure, exitEvent, postExited, ignored, rr, rd>>

\* Any other event: the loop waits again.
wait_other ==
    /\ pos = "wait"
    /\ ignored < MaxIgnored
    /\ \E ev \in WaitEvents :
        /\ Possible(ev)
        /\ WaitDecision(ev) = "loop"
        /\ tstate' = ThreadAfter(ev)
    /\ ignored' = ignored + 1
    /\ trace' = Append(trace, WaitCall(TRUE))
    /\ UNCHANGED <<pos, pid, tid, code, threadRegs, threadFp, mem, mem0, regs, nextPcs, i,
                   originalDatas, remaining, err, failure, trapped, exitEvent, postExited,
                   rr, rd>>

\* The cleanup leaving its loop at the first write-back that fails.
cleanup_StopAtFailure ==
    /\ pos = "cleanup"
    /\ \E addr \in remaining, ok \in BOOLEAN :
        LET wr == PtracePokeData(mem, addr, originalDatas[addr], ok)
        IN  /\ err' = wr.err
            /\ mem' = wr.mem
            /\ remaining' = IF wr.err = NilErr THEN remaining \ {addr} ELSE {}
            /\ trace' = Append(trace, execPtraceFunc(Call("poke", "cleanup", addr, originalDatas[addr],
                                           wr.err = NilErr)))
    /\ UNCHANGED <<pos, pid, tid, code, threadRegs, threadFp, tstate, mem0, regs, nextPcs,
                   i, originalDatas, failure, trapped, exitEvent, postExited, ignored,
                   rr, rd>>

\* One iteration of the deferred loop over originalDatas (a Go map: any
\* order): _, err = sys.PtracePokeData(t.ID, addr, originalData).
cleanup ==
    /\ pos = "cleanup"
    /\ \E addr \in remaining, ok \in BOOLEAN :
        LET wr == PtracePokeData(mem, addr, originalDatas[addr], ok)
        IN  /\ err' = wr.err
            /\ mem' = wr.mem
            /\ remaining' = remaining \ {addr}
            /\ trace' = Append(trace, execPtraceFunc(Call("poke", "cleanup", addr, originalDatas[addr],
                                           wr.err = NilErr)))
    /\ UNCHANGED <<pos, pid, tid, code, threadRegs, threadFp, tstate, mem0, regs, nextPcs,
                   i, originalDatas, failure, trapped, exitEvent, postExited, ignored,
                   rr, rd>>

\* The deferred function is done: singleStep returns err.
singleStep_return ==
    /\ pos = "cleanup"
    /\ remaining = {}
    /\ pos' = "returned"
    /\ UNCHANGED <<pid, tid, code, threadRegs, threadFp, tstate, mem, mem0, regs, nextPcs,
                   i, originalDatas, remaining, err, failure, trapped, exitEvent,
                   postExited, ignored, trace, rr, rd>>

\* ------------------------------------------------------- register transfer

\* syscall.Errno(n) as an error value; syscall.Errno(0) is not the nil error.
Errno(n) == Error("Errno", n, 0)

\* ptraceSetGRegs(t.ID, sr.Regs): nil when the registers were written, like
\* ptraceGetFpRegset, whose result fpRegisters tests against nil.
ptraceSetGRegs(ok) == IF ok THEN NilErr ELSE Errno(5)

\* syscall.Syscall6(SYS_PTRACE, PTRACE_SETREGSET, ..., NT_FPREGSET, ...): the
\* raw system call returns syscall.Errno(0) when it succeeds.
SyscallSetFpRegset(ok) == IF ok THEN Errno(0) ELSE Errno(5)

\* The closure of restoreRegisters: the error it leaves in
\* restoreRegistersErr and whether it issued the floating-point write.
restoreClosure(S, gOk, fpOk) ==
    LET g == ptraceSetGRegs(gOk)
    IN  IF g # Errno(0) THEN [e |-> g, fpWrite |-> FALSE]
        ELSE IF S.Fpregset # <<>> THEN [e |-> SyscallSetFpRegset(fpOk), fpWrite |-> TRUE]
        ELSE [e |-> g, fpWrite |-> FALSE]

\* restoreRegisters(savedRegs), for the outcomes gOk, fpOk of the two writes.
restoreRegistersRun(S, gOk, fpOk) ==
    LET c == restoreClosure(S, gOk, fpOk)
    IN  [S |-> S, ret |-> IF c.e = Errno(0) THEN NilErr ELSE c.e, gOk |-> gOk,
         fpWrite |-> c.fpWrite, fpOk |-> c.fpWrite /\ fpOk, done |-> TRUE]

restoreRegisters ==
    /\ pos = "idle"
    /\ \E S \in SavedRegs, gOk \in BOOLEAN, fpOk \in BOOLEAN :
        LET r == restoreRegistersRun(S, gOk, fpOk)
        IN  /\ rr' = r
            /\ threadRegs' = IF gOk THEN S.Regs ELSE threadRegs
            /\ threadFp' = IF r.fpWrite /\ fpOk THEN S.Fpregset ELSE threadFp
            /\ trace' = trace
                  \o <<execPtraceFunc(Call("setregs", "restore", U64(0), NoWord, gOk))>>
                  \o (IF r.fpWrite
                      THEN <<execPtraceFunc(Call("setfpregs", "restore", U64(0), NoWord, fpOk))>>
                      ELSE <<>>)
    /\ pos' = "restored"
    /\ UNCHANGED <<pid, tid, code, tstate, mem, mem0, rd>>
    /\ UNCHANGED stepVars

\* linutil's Decode of the raw block: one register per element.
Decode(vregs) == [k \in 1..Len(vregs) |-> [reg |-> k, value |-> vregs[k]]]

\* fpRegisters(): the decoded registers, the raw block and the error.
fpRegistersRun(fp, ok) ==
    LET vregs == IF ok THEN fp ELSE <<>>
    IN  [fpregs |-> Decode(vregs), Vregs |-> vregs,
         err |-> IF ok THEN NilErr
                 ELSE Error("could not get floating point registers", 5, 0)]

\* A read of the thread's registers: the general registers and fpRegisters().
fpRegisters ==
    /\ pos \in {"idle", "restored"}
    /\ \E ok \in BOOLEAN :
        LET f == fpRegistersRun(threadFp, ok)
        IN  /\ rd' = [Regs |-> threadRegs, fpregs |-> f.fpregs, Vregs |-> f.Vregs,
                      err |-> f.err, done |-> TRUE]
            /\ trace' = Append(trace, execPtraceFunc(Call("getfpregs", "fpregs", U64(0), NoWord, ok)))
    /\ pos' = "read"
    /\ UNCHANGED <<pid, tid, code, threadRegs, threadFp, tstate, mem, mem0, rr>>
    /\ UNCHANGED stepVars

\* ----------------------------------------------------------- specification

Next ==
    \/ singleStep_Registers
    \/ singleStep_resolvePC
    \/ resolvePC_targetPeek
    \/ otherClient_poke
    \/ readWriteMem
    \/ ptraceCont
    \/ wait_error
    \/ wait_exit
    \/ wait_trap
    \/ wait_other
    \/ cleanup
    \/ singleStep_return
    \/ restoreRegisters
    \/ fpRegisters

Spec == Init /\ [][Next]_vars

\* The runs in which what the code and the processor guarantee does happen:
\* a wait returns the target's trap once the resumed thread sits on a
\* breakpoint (the wait returns when a state change is pending), the deferred
\* loop goes through the map and the function returns.  Nothing obliges the
\* tracee to exit, other threads to produce events, or a wait to fail.
LiveSpec ==
    /\ Spec
    /\ WF_vars(wait_trap)
    /\ WF_vars(cleanup)
    /\ WF_vars(singleStep_return)

\* ------------------------------------------------------------------ claims

\* The addresses singleStep wrote the breakpoint encoding to.
Instrumented ==
    {trace[k].addr : k \in {j \in DOMAIN trace :
        trace[j].call = "poke" /\ trace[j].part = "instrument" /\ trace[j].ok}}

\* The addresses the cleanup issued a write-back for.
WrittenBack ==
    {trace[k].addr : k \in {j \in DOMAIN trace :
        trace[j].call = "poke" /\ trace[j].part = "cleanup"}}

\* No write-back of the cleanup was refused by the tracee.
CleanupServed == \A k \in DOMAIN trace : trace[k].part = "cleanup" => trace[k].ok

\* The wait loop was entered.
Waited == \E k \in DOMAIN trace : trace[k].call = "wait"

\* resolvePC returned the same address more than once.
HasDuplicate ==
    \E j \in DOMAIN nextPcs, k \in DOMAIN nextPcs :
        j < k /\ Uintptr(nextPcs[j]) = Uintptr(nextPcs[k])

\* C1: once singleStep has returned, every address it wrote the breakpoint
\* encoding to holds its pre-step bytes again, however the call returned and
\* whatever candidates resolvePC produced.  Stated for the runs in which the
\* tracee refused no write-back, where restoring is in the hands of the code.
C1_MemoryRestoredOnReturn ==
    (pos = "returned" /\ CleanupServed) =>
        \A a \in Instrumented : mem[a] = mem0[a]

\* C2: when the wait loop observed the exit of the process before any trap,
\* singleStep returns ErrProcessExited with the process id and the exit status
\* of that event, and a write-back was issued for every instrumented address.
C2_ProcessExitReported ==
    (pos = "returned" /\ exitEvent # NoEvent) =>
        /\ err = ErrProcessExited(pid, IF exitEvent.status = "nil" THEN 0 ELSE exitEvent.exit)
        /\ Instrumented \subseteq WrittenBack

\* C3: when Prepare, Instrument, Resume or Wait failed, singleStep returns that
\* first failure, whatever the cleanup write-backs did.
C3_FirstFailureReturned ==
    (pos = "returned" /\ failure # NilErr) => err = failure

\* C4: when resolvePC returned one address twice, the bytes saved for an
\* address are its pre-step bytes, and after singleStep has returned the
\* address holds its pre-step bytes (no write-back having been refused).
C4_DuplicateCandidateHarmless ==
    HasDuplicate =>
        /\ \A a \in DOMAIN originalDatas : originalDatas[a] = mem0[a]
        /\ (pos = "returned" /\ CleanupServed) =>
               \A a \in Instrumented : mem[a] = mem0[a]

\* The scenario of C5: the thread is stopped at 0x1000 on a branch-with-link
\* to 0x2000.
BranchWithLinkScenario ==
    /\ code.Op = "BL"
    /\ regs[PC] = StartPC
    /\ HwTaken(code, regs, mem) = {U64(8192)}

\* A successful step: it ended with the target thread's trap, no tracing call
\* failed, and nil was returned.
SuccessfulStep ==
    /\ pos = "returned"
    /\ trapped
    /\ err = NilErr
    /\ \A k \in DOMAIN trace : trace[k].ok

\* C5: for a branch-with-link at 0x1000 to 0x2000, resolvePC returns exactly
\* 0x1004 and 0x2000; when the thread has been resumed both addresses hold the
\* breakpoint encoding; after a successful step both hold their original
\* bytes and the thread is stopped with program counter 0x2000.
C5_BranchWithLinkStep ==
    BranchWithLinkScenario =>
        /\ pos \in {"instrument", "wait", "cleanup"} => nextPcs = <<U64(4100), U64(8192)>>
        /\ pos = "wait" =>
               mem[U64(4100)] = breakpointInstr /\ mem[U64(8192)] = breakpointInstr
        /\ SuccessfulStep =>
               /\ mem[U64(4100)] = mem0[U64(4100)]
               /\ mem[U64(8192)] = mem0[U64(8192)]
               /\ mem0[U64(4100)] # breakpointInstr /\ mem0[U64(8192)] # breakpointInstr
               /\ tstate = "stopped"
               /\ threadRegs[PC] = U64(8192)

\* C6: in the wait loop an event of another thread never completes the step:
\* a singleStep that entered the wait loop reports success only after a wait
\* returned the target thread's trap.
C6_SuccessOnlyAfterTrap ==
    (pos = "returned" /\ Waited /\ err = NilErr) => trapped

\* C7: restoreRegisters writes the general registers first; the
\* floating-point write is issued exactly when the general write reported no
\* error and a floating-point block was captured; a failed general write is
\* returned; nil is returned only when every attempted write succeeded.
C7_RestoreWritesInOrder ==
    rr.done =>
        /\ rr.fpWrite <=> (rr.gOk /\ rr.S.Fpregset # <<>>)
        /\ ~rr.gOk => (rr.ret = ptraceSetGRegs(FALSE) /\ ~rr.fpWrite)
        /\ (rr.S.Fpregset = <<>>) => (~rr.fpWrite /\ (rr.ret = NilErr <=> rr.gOk))
        /\ (rr.ret = NilErr) <=> (rr.gOk /\ (rr.fpWrite => rr.fpOk))

\* C8: a successful restoreRegisters(S) followed at once by a read of the
\* registers yields S: the general registers of S and, when S carries a
\* floating-point block, that block byte for byte.
C8_RestoreReadRoundTrip ==
    (pos = "read" /\ rr.done /\ rr.ret = NilErr /\ rd.err = NilErr) =>
        /\ rd.Regs = rr.S.Regs
        /\ (rr.S.Fpregset # <<>>) => rd.Vregs = rr.S.Fpregset

\* C9: whenever resolvePC returned without an error, its result is not empty
\* and contains the fall-through address, program counter + maxInstructionLength.
C9_FallThroughAlwaysCandidate ==
    (pos = "instrument") =>
        /\ Len(nextPcs) >= 1
        /\ \E k \in DOMAIN nextPcs : nextPcs[k] = Add64(regs[PC], U64(nextInstrLen))

C9_Witness == pos = "instrument" /\ Len(nextPcs) = 2 /\ code.Op = "POP"

\* The instructions of C10: no branch, no pop whose list holds the program
\* counter, no load, MOV or ADD into the program counter, conditional or not.
NoPcOperand(inst) ==
    /\ inst # Undecodable
    /\ BaseOp(inst.Op) \notin {"B", "BL", "BLX", "BX"}
    /\ ~(BaseOp(inst.Op) = "POP" /\ inst.Args[1].t = "RegList" /\ PC \in inst.Args[1].list)
    /\ ~(BaseOp(inst.Op) \in {"LDR", "MOV", "ADD"}
            /\ inst.Args[1].t = "Reg" /\ inst.Args[1].r = PC)

IsPeek(c) == c.call = "peek"
IsResolvePeek(c) == c.call = "peek" /\ c.part = "resolve"

\* The memory reads of the operation so far, and those resolvePC made.
MemoryReads == SelectSeq(trace, IsPeek)
ResolvePeeks == SelectSeq(trace, IsResolvePeek)

\* C10: for an instruction with no operand that affects the program counter,
\* resolvePC returns the one candidate program counter + maxInstructionLength
\* and reads memory once, for the instruction fetch.
C10_PlainInstructionOneCandidate ==
    (pos = "instrument" /\ i = 1 /\ NoPcOperand(code)) =>
        /\ nextPcs = <<U64(4100)>>
        /\ Len(MemoryReads) = 1
        /\ MemoryReads[1].part = "resolve" /\ MemoryReads[1].addr = StartPC

C10_Witness == pos = "instrument" /\ i = 1 /\ NoPcOperand(code) /\ code.Op = "LDR"

\* The target the claims C11 and C15 name for a branch operand: the
\* immediate itself, the value of the register, program counter + offset.
ClaimedBranchTarget(arg) ==
    CASE arg.t = "Imm" -> U64(arg.v)
      [] arg.t = "Reg" -> regs[arg.r]
      [] OTHER -> Add64(regs[PC], SignExt64(arg.v))

\* C11: for an always-executed B, BL, BLX or BX resolvePC returns exactly the
\* fall-through address followed by one target: the immediate itself, the
\* value of the register operand, or program counter + offset.
C11_UnconditionalBranchTargets ==
    (pos = "instrument" /\ code.Op \in {"B", "BL", "BLX", "BX"}) =>
        nextPcs = <<Add64(regs[PC], U64(nextInstrLen)), ClaimedBranchTarget(code.Args[1])>>

C11_Witness ==
    /\ pos = "instrument"
    /\ code = Inst("BX", <<Reg(0)>>)
    /\ nextPcs[2] = U64(8192)

\* The registers of a pop's list that lie below the program counter.
BelowPC(list) == {r \in list : r < PC}

\* The address the claim C12 names: SP + wordSize * n, wordSize = 4 bytes.
ClaimedPopAddr(list) ==
    Uintptr(Add64(regs[SP], U64(4 * Cardinality(BelowPC(list)))))

\* C12: for a stack pop whose register list includes the program counter the
\* address resolvePC reads is SP + wordSize * (number of listed registers
\* below the program counter) and the target appended is the word stored
\* there; a pop whose list leaves the program counter out appends no target.
C12_PopTarget ==
    (BaseOp(code.Op) = "POP" /\ pos = "instrument") =>
        LET list == code.Args[1].list IN
        IF PC \in list
        THEN /\ Len(ResolvePeeks) = 2
             /\ ResolvePeeks[2].addr = ClaimedPopAddr(list)
             /\ nextPcs = <<Add64(regs[PC], U64(nextInstrLen)),
                            LittleEndianUint32(mem[ClaimedPopAddr(list)])>>
        ELSE nextPcs = <<Add64(regs[PC], U64(nextInstrLen))>>

\* C15: for a branch, branch-with-link or branch-exchange whose condition is
\* not "always" the result of resolvePC contains the fall-through address and
\* the branch target.
C15_ConditionalBranchBothWays ==
    (pos = "instrument" /\ IsConditional(code.Op)
        /\ BaseOp(code.Op) \in {"B", "BL", "BLX", "BX"}) =>
        /\ \E k \in DOMAIN nextPcs : nextPcs[k] = Add64(regs[PC], U64(nextInstrLen))
        /\ \E k \in DOMAIN nextPcs : nextPcs[k] = ClaimedBranchTarget(code.Args[1])

\* The addresses the claim C17 names for the memory operand m: base +
\* sign * shift(index, count) on 32-bit words, base + offset, or base.
ClaimedLoadAddrs(m) ==
    IF m.Mode \in {"AddrOffset", "AddrPreIndex"}
    THEN IF m.Sign # 0
         THEN {Uintptr(IF m.Sign < 0 THEN Sub64(regs[m.Base], x)
                       ELSE Add64(regs[m.Base], x)) :
                  x \in HwShift(regs[m.Index], m.Shift, m.Count)}
         ELSE {Uintptr(Add64(regs[m.Base], SignExt64(m.Offset)))}
    ELSE {Uintptr(regs[m.Base])}

\* A load whose destination is the program counter and whose source is a
\* memory operand.
LoadIntoPC ==
    /\ code.Op = "LDR"
    /\ code.Args[1].t = "Reg" /\ code.Args[1].r = PC
    /\ code.Args[2].t = "Mem"

\* C17: the address resolvePC reads the target of a load into the program
\* counter from is base + sign * shift(index, count) computed on 32-bit
\* words (LSL, LSR, ASR, ROR within 32 bits, RRX), base + offset for an
\* immediate offset, and base in post-index mode.
C17_LoadAddress32Bit ==
    (LoadIntoPC /\ Len(ResolvePeeks) = 2) =>
        ResolvePeeks[2].addr \in ClaimedLoadAddrs(code.Args[2].m)

\* The positions of the trace holding a call of the given name, or of the
\* given part of the step.
CallsNamed(name) == {k \in DOMAIN trace : trace[k].call = name}
CallsOfPart(part) == {k \in DOMAIN trace : trace[k].part = part}

\* Every candidate was instrumented: the loop over nextPcs ran to its end.
AllInstrumented == nextPcs # <<>> /\ i > Len(nextPcs)

InstrumentFailed == \E k \in CallsOfPart("instrument") : ~trace[k].ok
FailingAddr == Uintptr(nextPcs[i])
EarlierAddrs == {Uintptr(nextPcs[n]) : n \in 1..(i - 1)}

\* What the claim C14 and its amended form share: the failing call is the
\* last of the instrument phase, there is no resume and no wait, and every
\* address instrumented before is written back with the bytes saved for it.
InstrumentFailureStops ==
    /\ \A k \in CallsOfPart("instrument") : ~trace[k].ok =>
          \A j \in CallsOfPart("instrument") : j <= k
    /\ Instrumented = EarlierAddrs
    /\ CallsNamed("cont") = {} /\ CallsNamed("wait") = {}
    /\ \A a \in EarlierAddrs : \E j \in CallsOfPart("cleanup") :
          /\ trace[j].call = "poke" /\ trace[j].addr = a
          /\ trace[j].data = originalDatas[a] /\ trace[j].data = mem0[a]

\* C14 as stated: when the peek or the poke of the k-th candidate fails, no
\* further candidate is instrumented, the thread is neither resumed nor
\* waited for, every earlier address is written back with its saved bytes,
\* and the failing address has no recorded entry and is not written back.
C14_FailingAddressNeverRecorded ==
    (pos = "returned" /\ InstrumentFailed) =>
        /\ InstrumentFailureStops
        /\ FailingAddr \notin DOMAIN originalDatas
        /\ FailingAddr \notin WrittenBack

\* C14 amended: the failing attempt records nothing, so the failing address
\* has an entry and is written back exactly when an earlier candidate with
\* the same address was instrumented.
C14_FailingAttemptRecordsNothing ==
    (pos = "returned" /\ InstrumentFailed) =>
        /\ InstrumentFailureStops
        /\ DOMAIN originalDatas = EarlierAddrs
        /\ WrittenBack = EarlierAddrs

C14_Witness ==
    /\ pos = "returned" /\ InstrumentFailed
    /\ i = 2 /\ FailingAddr \notin EarlierAddrs
    /\ WrittenBack = EarlierAddrs
    /\ trace[Len(trace) - 1].call = "poke" /\ ~trace[Len(trace) - 1].ok

\* C18: when the registers are read, the candidates resolved and
\* instrumented, the thread resumed and the wait ended by the target's trap,
\* and the cleanup write-back fails for at least one address, singleStep
\* returns an error.
C18_CleanupFailureReported ==
    (/\ pos = "returned" /\ trapped /\ failure = NilErr
     /\ \A k \in DOMAIN trace : trace[k].part # "cleanup" => trace[k].ok
     /\ ~CleanupServed) => err # NilErr

\* C20: the cleanup issues one write-back for every recorded address, a
\* failed write-back not stopping it, and none for an address that was never
\* recorded.
C20_CleanupCoversEveryEntry ==
    /\ WrittenBack \subseteq DOMAIN originalDatas
    /\ \A j \in CallsOfPart("cleanup") :
          /\ trace[j].call = "poke" /\ trace[j].data = originalDatas[trace[j].addr]
          /\ \A k \in CallsOfPart("cleanup") : trace[k].addr = trace[j].addr => k = j
    /\ pos = "returned" => WrittenBack = DOMAIN originalDatas

C20_Witness ==
    /\ pos = "returned"
    /\ Cardinality(DOMAIN originalDatas) = 2
    /\ Cardinality(CallsOfPart("cleanup")) = 2
    /\ \E j \in CallsOfPart("cleanup") :
          ~trace[j].ok /\ \E k \in CallsOfPart("cleanup") : k > j

\* C19: every call singleStep, resolvePC, restoreRegisters and fpRegisters
\* make against the tracee (register read and write, memory peek and poke,
\* resume, blocking wait) is executed inside execPtraceFunc, so that no call
\* of another client is served while a call of the operation is in progress
\* (here: after the resume, while singleStep is blocked in its wait).
C19_EveryCallInsideGate ==
    /\ \A k \in DOMAIN trace : trace[k].gate
    /\ \A k \in CallsOfPart("other"), j \in CallsNamed("cont") : trace[j].ok => k < j

\* C16: every singleStep that issued the resume eventually returns, whatever
\* events the tracee produces, provided a wait returns once a state change of
\* the tracee is pending.
C16_ResumedStepReturns == (pos = "wait") ~> (pos = "returned")

====
